---- MODULE Spec2Model ----
(***************************************************************************)
(* A model of geomaps_sdk/maps_sdk.py: the Geoapify adapter operations,    *)
(* the shared request helper, the resource lifecycle of provider and       *)
(* client, and the LocationClient facade.                                  *)
(*                                                                         *)
(* Python values are records carrying a type tag, so that the isinstance   *)
(* and truthiness tests of the source are decided as Python decides them.  *)
(* An operation is an operator that returns an outcome record              *)
(*   [exc, msg, value, sent, decoded]                                      *)
(* exc = "none" for a normal return, otherwise the class of the exception  *)
(* that leaves the operation; sent is the sequence of HTTP requests the    *)
(* call issued; decoded tells whether response.json() was evaluated.       *)
(***************************************************************************)
EXTENDS Integers, Sequences, FiniteSets, TLC

VARIABLES
    ncalls,        \* adapter operations invoked so far
    nrequests,     \* HTTP requests issued so far through the session
    last,          \* the last invocation: operation, arguments, outcome
    life,          \* lifecycle state of one provider and a client holding it
    mock,          \* the facade over a mocked provider
    made,          \* the objects constructed so far and the last construction
    info           \* the last RouteInfo constructed and what its accessors gave

vars == <<ncalls, nrequests, last, life, mock, made, info>>

----------------------------------------------------------------------------
(* Bounds of the model *)

MaxCalls == 2
MaxQueryLen == 2
MaxListLen == 2

(* Program constants *)

MAX_POINTS == 10
MIN_LIMIT == 1
MAX_LIMIT == 50
DEFAULT_LIMIT == 5
DEFAULT_TIMEOUT == 10

----------------------------------------------------------------------------
(* Python values *)

Num(n) == [k |-> "num", v |-> n]
NaN == [k |-> "nan", v |-> 0]
NonNum == [k |-> "str", v |-> 0]

\* a <= b as Python evaluates it on coordinates: "TypeError" for a string
\* operand, False whenever an operand is NaN.
PyLeq(a, b) ==
    IF a.k = "str" \/ b.k = "str" THEN "TypeError"
    ELSE IF a.k = "nan" \/ b.k = "nan" THEN "False"
    ELSE IF a.v <= b.v THEN "True" ELSE "False"

GeoPoint(lat, lon) ==
    [t |-> "GeoPoint", keys |-> {"latitude", "longitude"}, latitude |-> lat, longitude |-> lon]

Dict(keys, lat, lon) ==
    [t |-> "dict", keys |-> keys, latitude |-> lat, longitude |-> lon]

PyNone == [t |-> "none", keys |-> {}, latitude |-> Num(0), longitude |-> Num(0)]
PyStr == [t |-> "str", keys |-> {}, latitude |-> Num(0), longitude |-> Num(0)]

Lats == {-91, -90, 0, 90, 91}
Lons == {-181, -180, 0, 180, 181}

GeoPoints ==
    {GeoPoint(Num(a), Num(b)) : a \in Lats, b \in Lons}
    \cup {GeoPoint(NaN, Num(0)), GeoPoint(Num(0), NaN),
          GeoPoint(NonNum, Num(0)), GeoPoint(Num(0), NonNum), GeoPoint(Num(91), NonNum)}

Dicts ==
    {Dict({"latitude", "longitude"}, Num(a), Num(b)) : a \in {-91, 0, 90}, b \in {0, 180, 181}}
    \cup {Dict({"latitude"}, Num(0), Num(0)), Dict({"longitude"}, Num(0), Num(0)),
          Dict({}, Num(0), Num(0))}

Locations == GeoPoints \cup Dicts \cup {PyNone, PyStr}

\* Queries: None, an int, or a string over the alphabet {" ", "\t", "a"}.
Whitespace == {" ", "\t"}
Chars == Whitespace \cup {"a"}
RECURSIVE SeqsUpTo(_, _)
SeqsUpTo(S, n) ==
    IF n = 0 THEN {<<>>}
    ELSE LET shorter == SeqsUpTo(S, n - 1)
         IN shorter \cup {Append(s, x) : s \in shorter, x \in S}

QStr(s) == [t |-> "str", s |-> s, n |-> 0]
QInt(n) == [t |-> "int", s |-> <<>>, n |-> n]
QNone == [t |-> "none", s |-> <<>>, n |-> 0]
Queries == {QStr(s) : s \in SeqsUpTo(Chars, MaxQueryLen)} \cup {QInt(0), QInt(7), QNone}

\* str.strip(): leading and trailing whitespace removed.
RECURSIVE lstrip(_)
lstrip(s) == IF s # <<>> /\ Head(s) \in Whitespace THEN lstrip(Tail(s)) ELSE s
RECURSIVE rstrip(_)
rstrip(s) == IF s # <<>> /\ s[Len(s)] \in Whitespace THEN rstrip(SubSeq(s, 1, Len(s) - 1)) ELSE s
strip(s) == rstrip(lstrip(s))

\* bool(query)
QueryTruthy(q) ==
    CASE q.t = "none" -> FALSE
      [] q.t = "int" -> q.n # 0
      [] q.t = "str" -> q.s # <<>>

Limits == {-1, 0, 1, 5, 50, 51, 100}

TravelModes == {"drive", "walk", "bike", "truck"}
DistanceUnits == {"km", "mi", "m"}
DRIVING == "drive"
KILOMETERS == "km"

----------------------------------------------------------------------------
(* Outcomes *)

NoMsg == [tmpl |-> "", status |-> 0, text |-> "", name |-> <<>>]
Msg(tmpl, name) == [tmpl |-> tmpl, status |-> 0, text |-> "", name |-> name]

Return(value, sent, decoded) ==
    [exc |-> "none", msg |-> NoMsg, value |-> value, sent |-> sent, decoded |-> decoded]
Raise(exc, msg, sent, decoded) ==
    [exc |-> exc, msg |-> msg, value |-> <<>>, sent |-> sent, decoded |-> decoded]

----------------------------------------------------------------------------
(* Exception classes: each class with the classes it is a subclass of *)

SDKErrors == {"ValidationError", "AuthenticationError", "RateLimitError", "APIError"}

\* Bases with AuthenticationError derived from APIError.
Bases_authIsAPIError(cls) ==
    CASE cls = "AuthenticationError" -> {cls, "APIError", "LocationSDKError", "Exception"}
      [] cls \in SDKErrors -> {cls, "LocationSDKError", "Exception"}
      [] cls = "LocationSDKError" -> {cls, "Exception"}
      [] cls = "ReadTimeout" -> {cls, "Timeout", "RequestException", "Exception"}
      [] cls = "ConnectTimeout" ->
            {cls, "ConnectionError", "Timeout", "RequestException", "Exception"}
      [] cls = "ConnectionError" -> {cls, "RequestException", "Exception"}
      [] cls = "TooManyRedirects" -> {cls, "RequestException", "Exception"}
      [] cls = "requests.JSONDecodeError" ->
            {cls, "RequestException", "ValueError", "Exception"}
      [] cls = "json.JSONDecodeError" -> {cls, "ValueError", "Exception"}
      [] OTHER -> {cls, "Exception"}

\* class LocationSDKError(Exception) and its four direct subclasses
Bases(cls) ==
    CASE cls \in SDKErrors -> {cls, "LocationSDKError", "Exception"}
      [] cls = "LocationSDKError" -> {cls, "Exception"}
      [] cls = "ReadTimeout" -> {cls, "Timeout", "RequestException", "Exception"}
      [] cls = "ConnectTimeout" ->
            {cls, "ConnectionError", "Timeout", "RequestException", "Exception"}
      [] cls = "ConnectionError" -> {cls, "RequestException", "Exception"}
      [] cls = "TooManyRedirects" -> {cls, "RequestException", "Exception"}
      [] cls = "requests.JSONDecodeError" ->
            {cls, "RequestException", "ValueError", "Exception"}
      [] cls = "json.JSONDecodeError" -> {cls, "ValueError", "Exception"}
      [] OTHER -> {cls, "Exception"}

----------------------------------------------------------------------------
(* The HTTP transport: what session.get / session.post can do *)

BASE_URL == "https://api.geoapify.com/v1"
API_KEY == "KEY"

\* One entry of "features": geometry.coordinates and, of properties, city,
\* rank.confidence (in hundredths), distance and time.  A negative argument
\* stands for an absent key.
Feature(coords, city, conf, dist, time) ==
    [coordinates |-> coords, city |-> city,
     has_confidence |-> conf >= 0, confidence |-> conf,
     has_distance |-> dist >= 0, distance |-> dist,
     has_time |-> time >= 0, time |-> time]

\* One cell of "sources_to_targets"; a negative argument stands for an absent key.
Cell(dist, time) ==
    [has_distance |-> dist >= 0, distance |-> dist, has_time |-> time >= 0, time |-> time]

\* A decoded JSON object: keys tells which top-level keys are present.
JsonObject(keys, features, stt) ==
    [kind |-> "object", cls |-> "", keys |-> keys, features |-> features,
     sources_to_targets |-> stt, results |-> <<>>]
Undecodable(cls) ==
    [kind |-> "undecodable", cls |-> cls, keys |-> {}, features |-> <<>>,
     sources_to_targets |-> <<>>, results |-> <<>>]

\* One entry of a "results" list, the flat layout of format=json: "lat",
\* "lon", the address fields and the nested "rank".
ResultEntry(lat, lon, city, conf) ==
    [lat |-> lat, lon |-> lon, city |-> city, rank |-> [confidence |-> conf]]

\* A decoded JSON object whose only top-level key is "results".
ResultsObject(results) ==
    [kind |-> "object", cls |-> "", keys |-> {"results"}, features |-> <<>>,
     sources_to_targets |-> <<>>, results |-> results]

F1 == Feature(<<13, 52>>, "Berlin", 99, 5000, 300)
F2 == Feature(<<2, 48>>, "Paris", -1, -1, -1)
FNoCoords == Feature(<<>>, "Nowhere", 50, 1001, 61)
FOneCoord == Feature(<<13>>, "Halfway", 50, 1, 1)
R1 == ResultEntry(50, 8, "Butzbach", 99)
R2 == ResultEntry(48, 2, "Paris", 80)

Bodies ==
    {Undecodable("requests.JSONDecodeError"), Undecodable("json.JSONDecodeError"),
     JsonObject({}, <<>>, <<>>),
     JsonObject({"features"}, <<>>, <<>>),
     JsonObject({"features"}, <<F1>>, <<>>),
     JsonObject({"features"}, <<FNoCoords, F1>>, <<>>),
     JsonObject({"features"}, <<F2, F1>>, <<>>),
     JsonObject({"features"}, <<F1, FOneCoord, F2>>, <<>>),
     ResultsObject(<<R1>>),
     ResultsObject(<<R1, R2>>),
     JsonObject({"sources_to_targets"}, <<>>, <<<<Cell(10, 1)>>>>),
     JsonObject({"sources_to_targets"}, <<>>,
                <<<<Cell(10, 1), Cell(20, -1)>>, <<Cell(-1, 3), Cell(40, 4)>>>>)}

Statuses == {200, 204, 302, 399, 400, 401, 403, 404, 429, 500}
Texts == {"", "boom"}

TransportErrors == {"ReadTimeout", "ConnectTimeout", "ConnectionError", "TooManyRedirects"}

Response(status, text, body) ==
    [kind |-> "response", cls |-> "", status_code |-> status, text |-> text, body |-> body]
TransportRaises(cls) ==
    [kind |-> "raise", cls |-> cls, status_code |-> 0, text |-> "", body |-> JsonObject({}, <<>>, <<>>)]

\* Every body under a status below 400; under an error status, where the body
\* is not looked at, one body that decodes and one that does not.
Nets ==
    {Response(s, "", b) : s \in {x \in Statuses : x < 400}, b \in Bodies}
    \cup {Response(s, t, b) : s \in {x \in Statuses : x >= 400}, t \in Texts,
                              b \in {Undecodable("json.JSONDecodeError"),
                                     JsonObject({"features"}, <<F1>>, <<>>)}}
    \cup {TransportRaises(c) : c \in TransportErrors}

Request(method, url, params, timeout) ==
    [method |-> method, url |-> url, params |-> params, timeout |-> timeout]

----------------------------------------------------------------------------
(* BaseLocationProvider._make_request *)

Methods == {"GET", "get", "POST", "Post", "PUT", "delete"}

upper(m) ==
    CASE m \in {"GET", "get"} -> "GET"
      [] m \in {"POST", "Post"} -> "POST"
      [] m = "PUT" -> "PUT"
      [] m = "delete" -> "DELETE"

\* ExceptClauses without its last clause, except ValueError.
ExceptClauses_noValueError(cls, timeout, sent, decoded) ==
    IF "Timeout" \in Bases(cls)
    THEN Raise("APIError", [tmpl |-> "API request timed out after", status |-> timeout,
                            text |-> "", name |-> <<>>], sent, decoded)
    ELSE IF "ConnectionError" \in Bases(cls)
    THEN Raise("APIError", Msg("Connection error", <<cls>>), sent, decoded)
    ELSE IF "RequestException" \in Bases(cls)
    THEN Raise("APIError", Msg("Request failed", <<cls>>), sent, decoded)
    ELSE Raise(cls, NoMsg, sent, decoded)

\* The except clauses of _make_request, tried in order, on an exception of
\* class cls raised inside the try block.
ExceptClauses(cls, timeout, sent, decoded) ==
    IF "Timeout" \in Bases(cls)
    THEN Raise("APIError", [tmpl |-> "API request timed out after", status |-> timeout,
                            text |-> "", name |-> <<>>], sent, decoded)
    ELSE IF "ConnectionError" \in Bases(cls)
    THEN Raise("APIError", Msg("Connection error", <<cls>>), sent, decoded)
    ELSE IF "RequestException" \in Bases(cls)
    THEN Raise("APIError", Msg("Request failed", <<cls>>), sent, decoded)
    ELSE IF "ValueError" \in Bases(cls)
    THEN Raise("APIError", Msg("Failed to parse API response", <<cls>>), sent, decoded)
    ELSE Raise(cls, NoMsg, sent, decoded)

\* StatusError with 403 left to the generic branch.
StatusError_no403(status) ==
    IF status = 401 THEN "AuthenticationError"
    ELSE IF status = 429 THEN "RateLimitError"
    ELSE IF status >= 400 THEN "APIError"
    ELSE "none"

\* The status checks on a response, before the body is decoded.
StatusError(status) ==
    IF status = 401 \/ status = 403 THEN "AuthenticationError"
    ELSE IF status = 429 THEN "RateLimitError"
    ELSE IF status >= 400 THEN "APIError"
    ELSE "none"

\* One retry: the request is sent a second time.
Attempts_retry == 1 + 1

\* The number of calls of session.get / session.post one evaluation makes.
Attempts == 1

\* _make_request that decodes the body before it looks at the status.
_make_request_decodeFirst(url, method, params, timeout, net) ==
    IF upper(method) \notin {"GET", "POST"}
    THEN Raise("ValidationError", Msg("Unsupported HTTP method", <<method>>), <<>>, FALSE)
    ELSE
      LET sent == [i \in 1..Attempts |-> Request(upper(method), url, params, timeout)]
      IN IF net.kind = "raise"
         THEN ExceptClauses(net.cls, timeout, sent, FALSE)
         ELSE IF net.body.kind = "undecodable"
         THEN ExceptClauses(net.body.cls, timeout, sent, TRUE)
         ELSE LET err == StatusError(net.status_code)
              IN IF err = "AuthenticationError"
                 THEN Raise(err, Msg("Invalid API key or insufficient permissions", <<>>),
                            sent, TRUE)
                 ELSE IF err = "RateLimitError"
                 THEN Raise(err, Msg("API rate limit exceeded", <<>>), sent, TRUE)
                 ELSE IF err = "APIError"
                 THEN Raise(err, [tmpl |-> "API request failed with status",
                                  status |-> net.status_code, text |-> net.text,
                                  name |-> <<>>], sent, TRUE)
                 ELSE Return(net.body, sent, TRUE)

_make_request(url, method, params, timeout, net) ==
    IF upper(method) \notin {"GET", "POST"}
    THEN Raise("ValidationError", Msg("Unsupported HTTP method", <<method>>), <<>>, FALSE)
    ELSE
      LET sent == [i \in 1..Attempts |-> Request(upper(method), url, params, timeout)]
      IN IF net.kind = "raise"
         THEN ExceptClauses(net.cls, timeout, sent, FALSE)
         ELSE LET err == StatusError(net.status_code)
              IN IF err = "AuthenticationError"
                 THEN Raise(err, Msg("Invalid API key or insufficient permissions", <<>>),
                            sent, FALSE)
                 ELSE IF err = "RateLimitError"
                 THEN Raise(err, Msg("API rate limit exceeded", <<>>), sent, FALSE)
                 ELSE IF err = "APIError"
                 THEN Raise(err, [tmpl |-> "API request failed with status",
                                  status |-> net.status_code, text |-> net.text,
                                  name |-> <<>>], sent, FALSE)
                 ELSE IF net.body.kind = "undecodable"
                 THEN ExceptClauses(net.body.cls, timeout, sent, TRUE)
                 ELSE Return(net.body, sent, TRUE)

----------------------------------------------------------------------------
(* GeoapifyProvider helper methods *)

Ok == Return(<<>>, <<>>, FALSE)

\* NotInRange with the bounds excluded: not (lo < x < hi).
NotInRange_exclusive(lo, x, hi) ==
    IF x.k = "str" THEN "TypeError"
    ELSE IF x.k = "nan" THEN "raise"
    ELSE IF lo < x.v /\ x.v < hi THEN "pass" ELSE "raise"

\* not (lo <= x <= hi): "raise" when the range test is False, "TypeError" when
\* a comparison cannot be evaluated, "pass" otherwise.
NotInRange(lo, x, hi) ==
    LET c1 == PyLeq(Num(lo), x)
    IN IF c1 = "TypeError" THEN "TypeError"
       ELSE IF c1 = "False" THEN "raise"
       ELSE LET c2 == PyLeq(x, Num(hi))
            IN IF c2 = "TypeError" THEN "TypeError"
               ELSE IF c2 = "False" THEN "raise" ELSE "pass"

_validate_location(location, name) ==
    IF location.t = "dict" /\ ~({"latitude", "longitude"} \subseteq location.keys)
    THEN Raise("ValidationError", Msg("must have 'latitude' and 'longitude' keys", name),
               <<>>, FALSE)
    ELSE IF location.t \notin {"dict", "GeoPoint"}
    THEN Raise("ValidationError", Msg("must be a GeoPoint or dict", name), <<>>, FALSE)
    ELSE
      LET lat == location.latitude
          lon == location.longitude
          rlat == NotInRange(-90, lat, 90)
          rlon == NotInRange(-180, lon, 180)
      IN IF rlat = "TypeError" THEN Raise("TypeError", NoMsg, <<>>, FALSE)
         ELSE IF rlat = "raise"
         THEN Raise("ValidationError", Msg("latitude must be between -90 and 90", name),
                    <<>>, FALSE)
         ELSE IF rlon = "TypeError" THEN Raise("TypeError", NoMsg, <<>>, FALSE)
         ELSE IF rlon = "raise"
         THEN Raise("ValidationError", Msg("longitude must be between -180 and 180", name),
                    <<>>, FALSE)
         ELSE Ok

\* A value passed where a list of locations is expected: a list, another sized
\* container (a tuple, a string), None, or an object without len() such as a
\* single GeoPoint.
ListVal(t, elems) == [t |-> t, elems |-> elems]

\* The loop of _validate_locations_list from index idx on: the first element
\* that fails decides.
RECURSIVE ValidateEach(_, _, _)
ValidateEach(elems, idx, name) ==
    IF idx > Len(elems) THEN Ok
    ELSE LET r == _validate_location(elems[idx], name \o <<idx - 1>>)
         IN IF r.exc # "none" THEN r ELSE ValidateEach(elems, idx + 1, name)

_validate_locations_list(locations, name) ==
    IF locations.t = "none" \/ (locations.t \in {"list", "sized"} /\ Len(locations.elems) = 0)
    THEN Raise("ValidationError", Msg("must not be empty", name), <<>>, FALSE)
    ELSE IF locations.t = "unsized"
    THEN Raise("TypeError", NoMsg, <<>>, FALSE)
    ELSE IF locations.t # "list"
    THEN Raise("ValidationError", Msg("must be a list of GeoPoint objects", name),
               <<>>, FALSE)
    ELSE ValidateEach(locations.elems, 1, name)

\* Attribute access location.latitude / location.longitude: only a GeoPoint
\* has the attributes.
HasAttributes(location) == location.t = "GeoPoint"

\* f"{loc.latitude},{loc.longitude}"
LatLonStr(loc) == <<loc.latitude, ",", loc.longitude>>

----------------------------------------------------------------------------
(* GeoapifyProvider operations.  net is what the transport does with the   *)
(* request, if one is issued.                                              *)

Address(f) == [city |-> f.city]

\* coords and len(coords) >= 2
HasCoords(f) == f.coordinates # <<>> /\ Len(f.coordinates) >= 2

\* FeaturePoint with the wire order kept: latitude from the first coordinate.
FeaturePoint_unswapped(f) == GeoPoint(Num(f.coordinates[1]), Num(f.coordinates[2]))

\* GeoPoint(latitude=coords[1], longitude=coords[0]), Python indices from 0
FeaturePoint(f) == GeoPoint(Num(f.coordinates[2]), Num(f.coordinates[1]))

\* An optional value: v, or None.
Some(v) == [some |-> TRUE, v |-> <<v>>]
None == [some |-> FALSE, v |-> <<>>]

\* rank = props.get("rank", {}); confidence=rank.get("confidence")
GeocodingResult(f) ==
    [location |-> FeaturePoint(f), address |-> Address(f),
     confidence |-> IF f.has_confidence THEN Some(f.confidence) ELSE None,
     raw_data |-> f]
AutocompleteResult(f) == [address |-> Address(f), location |-> FeaturePoint(f), raw_data |-> f]

\* MapFeatures that collects the results in reverse order.
RECURSIVE MapFeatures_reversed(_, _)
MapFeatures_reversed(features, kind) ==
    IF features = <<>> THEN <<>>
    ELSE LET f == Head(features)
             rest == MapFeatures_reversed(Tail(features), kind)
         IN CASE kind = "address" -> rest \o <<Address(f)>>
              [] kind = "geocode" ->
                    IF HasCoords(f) THEN rest \o <<GeocodingResult(f)>> ELSE rest
              [] kind = "autocomplete" ->
                    IF HasCoords(f) THEN rest \o <<AutocompleteResult(f)>> ELSE rest

\* MapFeatures that skips a feature without coordinates for addresses too.
RECURSIVE MapFeatures_addressNeedsCoords(_, _)
MapFeatures_addressNeedsCoords(features, kind) ==
    IF features = <<>> THEN <<>>
    ELSE LET f == Head(features)
             rest == MapFeatures_addressNeedsCoords(Tail(features), kind)
         IN CASE kind = "address" ->
                    IF HasCoords(f) THEN <<Address(f)>> \o rest ELSE rest
              [] kind = "geocode" ->
                    IF HasCoords(f) THEN <<GeocodingResult(f)>> \o rest ELSE rest
              [] kind = "autocomplete" ->
                    IF HasCoords(f) THEN <<AutocompleteResult(f)>> \o rest ELSE rest

\* The loop over response["features"]: one result per feature for addresses,
\* one per feature that has coordinates for geocode and autocomplete.
RECURSIVE MapFeatures(_, _)
MapFeatures(features, kind) ==
    IF features = <<>> THEN <<>>
    ELSE LET f == Head(features)
             rest == MapFeatures(Tail(features), kind)
         IN CASE kind = "address" -> <<Address(f)>> \o rest
              [] kind = "geocode" ->
                    IF HasCoords(f) THEN <<GeocodingResult(f)>> \o rest ELSE rest
              [] kind = "autocomplete" ->
                    IF HasCoords(f) THEN <<AutocompleteResult(f)>> \o rest ELSE rest

\* if "features" in response: for feature in response["features"]: ...
FeaturesOf(response) == IF "features" \in response.keys THEN response.features ELSE <<>>

\* BadQuery without its last test, not query.strip().
BadQuery_nostrip(query) == ~QueryTruthy(query) \/ query.t # "str"

\* not query or not isinstance(query, str) or not query.strip()
BadQuery(query) == ~QueryTruthy(query) \/ query.t # "str" \/ strip(query.s) = <<>>

\* geocode that treats an empty candidate list as a failure.
geocode_noResultsError(query, net) ==
    IF BadQuery(query)
    THEN Raise("ValidationError", Msg("Query must be a non-empty string", <<>>), <<>>, FALSE)
    ELSE
      LET r == _make_request(<<BASE_URL, "/geocode/search">>, "GET",
                             [text |-> query.s, apiKey |-> API_KEY, format |-> "json"],
                             DEFAULT_TIMEOUT, net)
      IN IF r.exc # "none" THEN r
         ELSE IF MapFeatures(FeaturesOf(r.value), "geocode") = <<>>
         THEN Raise("APIError", Msg("No results found", <<>>), r.sent, r.decoded)
         ELSE Return(MapFeatures(FeaturesOf(r.value), "geocode"), r.sent, r.decoded)

geocode(query, net) ==
    IF BadQuery(query)
    THEN Raise("ValidationError", Msg("Query must be a non-empty string", <<>>), <<>>, FALSE)
    ELSE
      LET r == _make_request(<<BASE_URL, "/geocode/search">>, "GET",
                             [text |-> query.s, apiKey |-> API_KEY, format |-> "json"],
                             DEFAULT_TIMEOUT, net)
      IN IF r.exc # "none" THEN r
         ELSE Return(MapFeatures(FeaturesOf(r.value), "geocode"), r.sent, r.decoded)

reverse_geocode(location, net) ==
    LET v == _validate_location(location, <<"location">>)
    IN IF v.exc # "none" THEN v
       ELSE IF ~HasAttributes(location) THEN Raise("AttributeError", NoMsg, <<>>, FALSE)
       ELSE
         LET r == _make_request(<<BASE_URL, "/geocode/reverse">>, "GET",
                                [lat |-> location.latitude, lon |-> location.longitude,
                                 apiKey |-> API_KEY, format |-> "json"],
                                DEFAULT_TIMEOUT, net)
         IN IF r.exc # "none" THEN r
            ELSE Return(MapFeatures(FeaturesOf(r.value), "address"), r.sent, r.decoded)

\* BadLimit with the bounds excluded: limit <= 1 or limit >= 50.
BadLimit_exclusive(limit) == limit <= MIN_LIMIT \/ limit >= MAX_LIMIT

\* limit < 1 or limit > 50
BadLimit(limit) == limit < MIN_LIMIT \/ limit > MAX_LIMIT

autocomplete(query, limit, net) ==
    IF BadQuery(query)
    THEN Raise("ValidationError", Msg("Query must be a non-empty string", <<>>), <<>>, FALSE)
    ELSE IF BadLimit(limit)
    THEN Raise("ValidationError", Msg("Limit must be between 1 and 50", <<>>), <<>>, FALSE)
    ELSE
      LET r == _make_request(<<BASE_URL, "/geocode/autocomplete">>, "GET",
                             [text |-> query.s, apiKey |-> API_KEY, format |-> "json",
                              limit |-> limit],
                             DEFAULT_TIMEOUT, net)
      IN IF r.exc # "none" THEN r
         ELSE Return(MapFeatures(FeaturesOf(r.value), "autocomplete"), r.sent, r.decoded)

\* "|".join([f"{loc.latitude},{loc.longitude}" for loc in locations])
PipeJoin(elems) == [i \in 1..Len(elems) |-> LatLonStr(elems[i])]

\* target.get("distance", 0) / target.get("time", 0)
GetDistance(c) == IF c.has_distance THEN c.distance ELSE 0
GetTime(c) == IF c.has_time THEN c.time ELSE 0

DistanceMatrixResult(response, sources, targets) ==
    LET stt == IF "sources_to_targets" \in response.keys
               THEN response.sources_to_targets ELSE <<>>
    IN [distances |-> [i \in 1..Len(stt) |-> [j \in 1..Len(stt[i]) |-> GetDistance(stt[i][j])]],
        durations |-> [i \in 1..Len(stt) |-> [j \in 1..Len(stt[i]) |-> GetTime(stt[i][j])]],
        unit |-> "metric", sources |-> sources, targets |-> targets]

\* distance_matrix that sends the travel mode with the request.
distance_matrix_sendsMode(sources, targets, mode, units, net) ==
    LET v1 == _validate_locations_list(sources, <<"sources">>)
        v2 == _validate_locations_list(targets, <<"targets">>)
    IN IF v1.exc # "none" THEN v1
       ELSE IF v2.exc # "none" THEN v2
       ELSE IF Len(sources.elems) > MAX_POINTS \/ Len(targets.elems) > MAX_POINTS
       THEN Raise("ValidationError", Msg("Maximum 10 sources and 10 targets", <<>>),
                  <<>>, FALSE)
       ELSE IF \E i \in 1..Len(sources.elems) : ~HasAttributes(sources.elems[i])
       THEN Raise("AttributeError", NoMsg, <<>>, FALSE)
       ELSE IF \E i \in 1..Len(targets.elems) : ~HasAttributes(targets.elems[i])
       THEN Raise("AttributeError", NoMsg, <<>>, FALSE)
       ELSE
         LET r == _make_request(<<BASE_URL, "/routematrix">>, "GET",
                                [sources |-> PipeJoin(sources.elems),
                                 targets |-> PipeJoin(targets.elems),
                                 mode |-> mode,
                                 apiKey |-> API_KEY],
                                DEFAULT_TIMEOUT, net)
         IN IF r.exc # "none" THEN r
            ELSE Return(DistanceMatrixResult(r.value, sources, targets), r.sent, r.decoded)

distance_matrix(sources, targets, mode, units, net) ==
    LET v1 == _validate_locations_list(sources, <<"sources">>)
        v2 == _validate_locations_list(targets, <<"targets">>)
    IN IF v1.exc # "none" THEN v1
       ELSE IF v2.exc # "none" THEN v2
       ELSE IF Len(sources.elems) > MAX_POINTS \/ Len(targets.elems) > MAX_POINTS
       THEN Raise("ValidationError", Msg("Maximum 10 sources and 10 targets", <<>>),
                  <<>>, FALSE)
       ELSE IF \E i \in 1..Len(sources.elems) : ~HasAttributes(sources.elems[i])
       THEN Raise("AttributeError", NoMsg, <<>>, FALSE)
       ELSE IF \E i \in 1..Len(targets.elems) : ~HasAttributes(targets.elems[i])
       THEN Raise("AttributeError", NoMsg, <<>>, FALSE)
       ELSE
         LET r == _make_request(<<BASE_URL, "/routematrix">>, "GET",
                                [sources |-> PipeJoin(sources.elems),
                                 targets |-> PipeJoin(targets.elems),
                                 apiKey |-> API_KEY],
                                DEFAULT_TIMEOUT, net)
         IN IF r.exc # "none" THEN r
            ELSE Return(DistanceMatrixResult(r.value, sources, targets), r.sent, r.decoded)

----------------------------------------------------------------------------
(* Python floats: IEEE 754 double precision, round to nearest, ties to     *)
(* even.  A non-zero float is a significand of Precision bits, most        *)
(* significant bit first and set, and an exponent: the value is the        *)
(* significand read as an integer times 2^e.  Only non-negative values and *)
(* the normal range are modelled.  The arithmetic works on bit sequences,  *)
(* so that no intermediate value exceeds the integers TLC computes with.   *)

Precision == 53
\* Zero bits appended to a dividend, enough for a quotient of more than
\* Precision bits when the divisor is below 2^10.
Scale == 64

FZero == [zero |-> TRUE, m |-> <<>>, e |-> 0]
Float(m, e) == [zero |-> FALSE, m |-> m, e |-> e]

Zeros(n) == [i \in 1..n |-> 0]

\* The binary digits of a natural number, most significant first.
RECURSIVE ToBits(_)
ToBits(n) == IF n = 0 THEN <<>> ELSE Append(ToBits(n \div 2), n % 2)

RECURSIVE FromBits(_)
FromBits(b) ==
    IF b = <<>> THEN 0 ELSE 2 * FromBits(SubSeq(b, 1, Len(b) - 1)) + b[Len(b)]

\* b without its leading zero bits.
StripZeros(b) ==
    IF \A i \in 1..Len(b) : b[i] = 0 THEN <<>>
    ELSE LET first == CHOOSE i \in 1..Len(b) : b[i] = 1 /\ \A j \in 1..(i - 1) : b[j] = 0
         IN SubSeq(b, first, Len(b))

\* Long division of the bit sequence b by c, r the remainder carried in from
\* the left: the quotient bits and the remainder.  The sequence is divided
\* half by half, the remainder of the left half carried into the right one.
RECURSIVE DivBits(_, _, _)
DivBits(b, c, r) ==
    IF b = <<>> THEN [q |-> <<>>, r |-> r]
    ELSE IF Len(b) = 1
    THEN LET t == 2 * r + b[1]
         IN IF t >= c THEN [q |-> <<1>>, r |-> t - c] ELSE [q |-> <<0>>, r |-> t]
    ELSE LET h == Len(b) \div 2
             left == DivBits(SubSeq(b, 1, h), c, r)
             right == DivBits(SubSeq(b, h + 1, Len(b)), c, left.r)
         IN [q |-> left.q \o right.q, r |-> right.r]

Reverse(b) == [i \in 1..Len(b) |-> b[Len(b) + 1 - i]]

\* The bit sequence b, least significant bit first, times c, carry carried
\* in from the low end: the product bits in the positions of b and the carry
\* out.  Half by half, the carry of the low half carried into the high one.
RECURSIVE MulStep(_, _, _)
MulStep(b, c, carry) ==
    IF b = <<>> THEN [bits |-> <<>>, carry |-> carry]
    ELSE IF Len(b) = 1
    THEN LET t == b[1] * c + carry
         IN [bits |-> <<t % 2>>, carry |-> t \div 2]
    ELSE LET h == Len(b) \div 2
             low == MulStep(SubSeq(b, 1, h), c, carry)
             high == MulStep(SubSeq(b, h + 1, Len(b)), c, low.carry)
         IN [bits |-> low.bits \o high.bits, carry |-> high.carry]

\* The bit sequence b, most significant bit first, times c plus carry.
MulBits(b, c, carry) ==
    LET p == MulStep(Reverse(b), c, carry)
    IN ToBits(p.carry) \o Reverse(p.bits)

\* b + 1
Inc(b) ==
    IF \A i \in 1..Len(b) : b[i] = 1 THEN <<1>> \o Zeros(Len(b))
    ELSE LET k == CHOOSE i \in 1..Len(b) : b[i] = 0 /\ \A j \in (i + 1)..Len(b) : b[j] = 1
         IN SubSeq(b, 1, k - 1) \o <<1>> \o Zeros(Len(b) - k)

\* Round with the significand truncated instead of rounded to nearest.
Round_truncating(bits, sticky, e) ==
    LET L == Len(bits)
    IN IF L <= Precision
       THEN Float(bits \o Zeros(Precision - L), e - (Precision - L))
       ELSE Float(SubSeq(bits, 1, Precision), e + (L - Precision))

\* The float nearest to bits * 2^e (plus a non-zero fraction of the last
\* bit when sticky), bits having its first bit set.
Round(bits, sticky, e) ==
    LET L == Len(bits)
    IN IF L <= Precision
       THEN Float(bits \o Zeros(Precision - L), e - (Precision - L))
       ELSE LET m == SubSeq(bits, 1, Precision)
                guard == bits[Precision + 1]
                below == sticky \/ \E i \in (Precision + 2)..L : bits[i] = 1
                up == guard = 1 /\ (below \/ m[Precision] = 1)
                m1 == IF up THEN Inc(m) ELSE m
            IN IF Len(m1) > Precision
               THEN Float(SubSeq(m1, 1, Precision), e + (L - Precision) + 1)
               ELSE Float(m1, e + (L - Precision))

\* float(n) for a natural number n
float(n) == IF n = 0 THEN FZero ELSE Round(ToBits(n), FALSE, 0)

\* n / c for natural numbers n and c, 0 < c < 2^10 (int / int, true division)
truediv(n, c) ==
    IF n = 0 THEN FZero
    ELSE LET d == DivBits(ToBits(n) \o Zeros(Scale), c, 0)
         IN Round(StripZeros(d.q), d.r # 0, -Scale)

\* x * c for a float x and a natural number c > 0 (float * int)
mul(x, c) ==
    IF x.zero THEN FZero ELSE Round(StripZeros(MulBits(x.m, c, 0)), FALSE, x.e)

\* int(x): truncation towards zero
int(x) ==
    IF x.zero THEN 0
    ELSE IF x.e >= 0 THEN FromBits(x.m \o Zeros(x.e))
    ELSE IF -x.e >= Len(x.m) THEN 0
    ELSE FromBits(SubSeq(x.m, 1, Len(x.m) + x.e))

----------------------------------------------------------------------------
(* RouteInfo *)

\* RouteInfo.__init__ with a missing distance read as 0.
RouteInfo__init__lenient(distance, duration, distance_km, duration_minutes) ==
    LET km == IF distance_km.some THEN distance_km.v[1]
              ELSE IF distance.some THEN truediv(distance.v[1], 1000) ELSE FZero
    IN IF ~duration_minutes.some /\ ~duration.some
       THEN [exc |-> "TypeError",
             msg |-> "Either duration or duration_minutes must be provided", self |-> <<>>]
       ELSE [exc |-> "none", msg |-> "",
             self |-> [distance_km |-> km,
                       duration_minutes |-> IF duration_minutes.some THEN duration_minutes.v[1]
                                            ELSE truediv(duration.v[1], 60)]]

\* RouteInfo.__init__(distance=None, duration=None, *, distance_km=None,
\* duration_minutes=None): distance in metres and duration in seconds are
\* ints, distance_km and duration_minutes are floats.
RouteInfo__init__(distance, duration, distance_km, duration_minutes) ==
    IF ~distance_km.some /\ ~distance.some
    THEN [exc |-> "TypeError", msg |-> "Either distance or distance_km must be provided",
          self |-> <<>>]
    ELSE IF ~duration_minutes.some /\ ~duration.some
    THEN [exc |-> "TypeError", msg |-> "Either duration or duration_minutes must be provided",
          self |-> <<>>]
    ELSE [exc |-> "none", msg |-> "",
          self |-> [distance_km |-> IF distance_km.some THEN distance_km.v[1]
                                    ELSE truediv(distance.v[1], 1000),
                    duration_minutes |-> IF duration_minutes.some THEN duration_minutes.v[1]
                                         ELSE truediv(duration.v[1], 60)]]

\* The properties distance and duration: int(self.distance_km * 1000) and
\* int(self.duration_minutes * 60).
RouteInfo_distance(self) == int(mul(self.distance_km, 1000))
RouteInfo_duration(self) == int(mul(self.duration_minutes, 60))

\* RouteInfo(distance=meters, duration=seconds): stored as km and minutes
RouteInfo(distance, duration) ==
    RouteInfo__init__(Some(distance), Some(duration), None, None).self

\* route that reads the last feature of the response instead of the first.
route_lastFeature(source, target, mode, net) ==
    LET v1 == _validate_location(source, <<"source">>)
        v2 == _validate_location(target, <<"target">>)
    IN IF v1.exc # "none" THEN v1
       ELSE IF v2.exc # "none" THEN v2
       ELSE IF ~HasAttributes(source) \/ ~HasAttributes(target)
       THEN Raise("AttributeError", NoMsg, <<>>, FALSE)
       ELSE
         LET r == _make_request(<<BASE_URL, "/routing">>, "GET",
                                [from |-> LatLonStr(source), to |-> LatLonStr(target),
                                 mode |-> mode, apiKey |-> API_KEY],
                                DEFAULT_TIMEOUT, net)
         IN IF r.exc # "none" THEN r
            ELSE IF Len(FeaturesOf(r.value)) > 0
            THEN LET feature == r.value.features[Len(r.value.features)]
                 IN Return(RouteInfo(GetDistance(feature), GetTime(feature)),
                           r.sent, r.decoded)
            ELSE Raise("APIError", Msg("No route found between the provided locations", <<>>),
                       r.sent, r.decoded)

route(source, target, mode, net) ==
    LET v1 == _validate_location(source, <<"source">>)
        v2 == _validate_location(target, <<"target">>)
    IN IF v1.exc # "none" THEN v1
       ELSE IF v2.exc # "none" THEN v2
       ELSE IF ~HasAttributes(source) \/ ~HasAttributes(target)
       THEN Raise("AttributeError", NoMsg, <<>>, FALSE)
       ELSE
         LET r == _make_request(<<BASE_URL, "/routing">>, "GET",
                                [from |-> LatLonStr(source), to |-> LatLonStr(target),
                                 mode |-> mode, apiKey |-> API_KEY],
                                DEFAULT_TIMEOUT, net)
         IN IF r.exc # "none" THEN r
            ELSE IF Len(FeaturesOf(r.value)) > 0
            THEN LET feature == r.value.features[1]
                 IN Return(RouteInfo(GetDistance(feature), GetTime(feature)),
                           r.sent, r.decoded)
            ELSE Raise("APIError", Msg("No route found between the provided locations", <<>>),
                       r.sent, r.decoded)

----------------------------------------------------------------------------
(* The adapter under a caller: one operation at a time, each to completion *)

Idle == [op |-> "idle", args |-> <<>>, net |-> <<>>, out |-> Ok, before |-> 0]

LifeInit ==
    [pscope |-> "out", cscope |-> "out", explicit_closes |-> 0, scope_exits |-> 0,
     provider_close_calls |-> 0, client_close_calls |-> 0, session_closes |-> 0,
     ev |-> [kind |-> "none", raised |-> FALSE, propagated |-> FALSE, closes |-> 0]]

MockInit ==
    [calls |-> <<>>, op |-> "none", given |-> <<>>, before |-> 0,
     provided |-> [exc |-> "none", obj |-> 0], result |-> [exc |-> "none", obj |-> 0]]

MadeInit ==
    [providers |-> 0, clients |-> 0, sessions |-> 0,
     ev |-> [kind |-> "none", args |-> <<>>, exc |-> "none", self |-> <<>>, sessions |-> 0]]

InfoInit ==
    [args |-> <<>>, exc |-> "none", self |-> <<>>, read |-> FALSE, distance |-> 0,
     duration |-> 0]

Init ==
    /\ ncalls = 0
    /\ nrequests = 0
    /\ last = Idle
    /\ life = LifeInit
    /\ mock = MockInit
    /\ made = MadeInit
    /\ info = InfoInit

\* The transport is consulted only by a call that issues a request.
DefaultNet == Response(200, "", JsonObject({}, <<>>, <<>>))
NetChoices(probe) == IF probe.sent = <<>> THEN {DefaultNet} ELSE Nets

Completes(op, args, net, out) ==
    /\ ncalls' = ncalls + 1
    /\ nrequests' = nrequests + Len(out.sent)
    /\ last' = [op |-> op, args |-> args, net |-> net, out |-> out, before |-> nrequests]
    /\ UNCHANGED <<life, mock, made, info>>

CanCall == last.op = "idle" /\ ncalls < MaxCalls

P0 == GeoPoint(Num(0), Num(0))
PBad == GeoPoint(Num(91), Num(0))
D0 == Dict({"latitude", "longitude"}, Num(0), Num(0))

Repeat(x, n) == [i \in 1..n |-> x]

SampleLocs == {P0, PBad, D0, PyStr}
Lists ==
    {ListVal("list", e) : e \in SeqsUpTo(SampleLocs, MaxListLen)}
    \cup {ListVal("none", <<>>), ListVal("sized", <<>>), ListVal("sized", <<P0>>),
          ListVal("unsized", <<>>)}
    \cup {ListVal("list", Repeat(P0, MAX_POINTS)), ListVal("list", Repeat(P0, MAX_POINTS + 1)),
          ListVal("list", Repeat(D0, MAX_POINTS + 1)),
          ListVal("list", <<PBad>> \o Repeat(P0, MAX_POINTS))}

BaseLocs == {P0, PBad, D0, PyNone}
RoutePairs ==
    {<<s, t>> : s \in Locations, t \in BaseLocs} \cup {<<s, t>> : s \in BaseLocs, t \in Locations}

Geocode ==
    /\ CanCall
    /\ \E query \in Queries :
         \E net \in NetChoices(geocode(query, DefaultNet)) :
            Completes("geocode", <<query>>, net, geocode(query, net))

ReverseGeocode ==
    /\ CanCall
    /\ \E location \in Locations :
         \E net \in NetChoices(reverse_geocode(location, DefaultNet)) :
            Completes("reverse_geocode", <<location>>, net, reverse_geocode(location, net))

Autocomplete ==
    /\ CanCall
    /\ \E query \in Queries, limit \in Limits :
         \E net \in NetChoices(autocomplete(query, limit, DefaultNet)) :
            Completes("autocomplete", <<query, limit>>, net, autocomplete(query, limit, net))

DistanceMatrix ==
    /\ CanCall
    /\ \E sources \in Lists, targets \in Lists, mode \in TravelModes, units \in DistanceUnits :
         \E net \in NetChoices(distance_matrix(sources, targets, mode, units, DefaultNet)) :
            Completes("distance_matrix", <<sources, targets, mode, units>>, net,
                      distance_matrix(sources, targets, mode, units, net))

Route ==
    /\ CanCall
    /\ \E pair \in RoutePairs, mode \in TravelModes :
         \E net \in NetChoices(route(pair[1], pair[2], mode, DefaultNet)) :
            Completes("route", <<pair[1], pair[2], mode>>, net,
                      route(pair[1], pair[2], mode, net))

\* The request helper called directly, as the tests of the helper do.
MakeRequest ==
    /\ CanCall
    /\ \E method \in Methods :
         \E net \in NetChoices(_make_request(<<BASE_URL, "/x">>, method, <<>>,
                                             DEFAULT_TIMEOUT, DefaultNet)) :
            Completes("_make_request", <<method>>, net,
                      _make_request(<<BASE_URL, "/x">>, method, <<>>, DEFAULT_TIMEOUT, net))

\* The static validator called directly, as its tests do.
ValidateLocation ==
    /\ CanCall
    /\ \E location \in Locations :
         Completes("_validate_location", <<location>>, DefaultNet,
                   _validate_location(location, <<"location">>))

\* The caller has the outcome and goes on.
Handled ==
    /\ last.op # "idle"
    /\ last' = Idle
    /\ UNCHANGED <<ncalls, nrequests, life, mock, made, info>>

Next ==
    \/ Geocode
    \/ ReverseGeocode
    \/ Autocomplete
    \/ DistanceMatrix
    \/ Route
    \/ MakeRequest
    \/ ValidateLocation
    \/ Handled

Spec == Init /\ [][Next]_vars

----------------------------------------------------------------------------
(* Resource lifecycle: one provider, and one client holding it.  life       *)
(* counts the calls of session.close(), provider.close() and client.close() *)
(* and keeps, in ev, what the last lifecycle event did.                     *)

MaxLifeActions == 4

\* BaseLocationProvider.close: self.session.close()
Provider_close(l) ==
    [l EXCEPT !.provider_close_calls = @ + 1, !.session_closes = @ + 1]

\* A client close that does not reach the provider.
Client_close_noforward(l) == [l EXCEPT !.client_close_calls = @ + 1]

\* LocationClient.close: self.provider.close()
Client_close(l) ==
    Provider_close([l EXCEPT !.client_close_calls = @ + 1])

\* An __exit__ that returns True: the exception of the body is suppressed.
Client__exit__swallow(l) == [l |-> Client_close(l), suppress |-> TRUE]

\* __exit__(exc_type, exc_val, exc_tb): self.close(); the method returns None,
\* which the with statement reads as "do not suppress the exception".
Provider__exit__(l) == [l |-> Provider_close(l), suppress |-> FALSE]
Client__exit__(l) == [l |-> Client_close(l), suppress |-> FALSE]

LifeActions == life.explicit_closes + life.scope_exits

LifeStep(l) ==
    /\ life' = l
    /\ UNCHANGED <<ncalls, nrequests, last, mock, made, info>>

ProviderClose ==
    /\ LifeActions < MaxLifeActions
    /\ LifeStep([Provider_close(life) EXCEPT
                    !.explicit_closes = @ + 1,
                    !.ev = [kind |-> "provider_close", raised |-> FALSE,
                            propagated |-> FALSE, closes |-> 1]])

ClientClose ==
    /\ LifeActions < MaxLifeActions
    /\ LifeStep([Client_close(life) EXCEPT
                    !.explicit_closes = @ + 1,
                    !.ev = [kind |-> "client_close", raised |-> FALSE,
                            propagated |-> FALSE, closes |-> 1]])

\* with provider: ...   (__enter__ returns self)
ProviderEnter ==
    /\ life.pscope # "in"
    /\ LifeActions < MaxLifeActions
    /\ LifeStep([life EXCEPT !.pscope = "in",
                             !.ev = [kind |-> "provider_enter", raised |-> FALSE,
                                     propagated |-> FALSE, closes |-> 0]])

\* The block is left, its body having completed or raised.
ProviderExit ==
    /\ life.pscope = "in"
    /\ \E raised \in BOOLEAN :
         LET x == Provider__exit__(life)
         IN LifeStep([x.l EXCEPT
                         !.pscope = "left",
                         !.scope_exits = @ + 1,
                         !.ev = [kind |-> "provider_exit", raised |-> raised,
                                 propagated |-> raised /\ ~x.suppress,
                                 closes |-> x.l.provider_close_calls
                                            - life.provider_close_calls]])

\* with LocationClient(provider) as client: ...
ClientEnter ==
    /\ life.cscope # "in"
    /\ LifeActions < MaxLifeActions
    /\ LifeStep([life EXCEPT !.cscope = "in",
                             !.ev = [kind |-> "client_enter", raised |-> FALSE,
                                     propagated |-> FALSE, closes |-> 0]])

ClientExit ==
    /\ life.cscope = "in"
    /\ \E raised \in BOOLEAN :
         LET x == Client__exit__(life)
         IN LifeStep([x.l EXCEPT
                         !.cscope = "left",
                         !.scope_exits = @ + 1,
                         !.ev = [kind |-> "client_exit", raised |-> raised,
                                 propagated |-> raised /\ ~x.suppress,
                                 closes |-> x.l.client_close_calls
                                            - life.client_close_calls]])

NextLife ==
    \/ ProviderClose
    \/ ClientClose
    \/ ProviderEnter
    \/ ProviderExit
    \/ ClientEnter
    \/ ClientExit

SpecLife == Init /\ [][NextLife]_vars

----------------------------------------------------------------------------
(* The LocationClient facade over a mocked provider                        *)
(* (Mock(spec=BaseLocationProvider)): the mock records every call made on  *)
(* it and returns the configured object or raises the configured error.    *)

MaxMockCalls == 2

\* An argument at a call site: given, or left to the signature's default.
Given(v) == [given |-> TRUE, v |-> <<v>>]
Omitted == [given |-> FALSE, v |-> <<>>]
Arg(a, default) == IF a.given THEN a.v[1] ELSE default

ProviderCall(name, args) == [name |-> name, args |-> args]

\* Each facade method: the calls it makes on self.provider, in order.
Client_geocode(query) == <<ProviderCall("geocode", <<query>>)>>
Client_reverse_geocode(location) == <<ProviderCall("reverse_geocode", <<location>>)>>
\* autocomplete forwarded without its limit.
Client_autocomplete_nolimit(query, limit) == <<ProviderCall("autocomplete", <<query>>)>>
Client_autocomplete(query, limit) == <<ProviderCall("autocomplete", <<query, limit>>)>>
Client_distance_matrix(sources, targets, mode, units) ==
    <<ProviderCall("distance_matrix", <<sources, targets, mode, units>>)>>
Client_route(source, target, mode) == <<ProviderCall("route", <<source, target, mode>>)>>

\* return self.provider.<operation>(...): the provider's object is returned,
\* the provider's exception propagates.
Client_return(provided) == provided

MockBehaviours ==
    {[exc |-> "none", obj |-> 1], [exc |-> "none", obj |-> 2]}
    \cup {[exc |-> e, obj |-> 0] : e \in {"ValidationError", "APIError", "TypeError"}}

FacadeQueries == {"Test Address", ""}
FacadeLimits == {Omitted, Given(0), Given(5), Given(20)}
FacadeModes == {Omitted, Given("drive"), Given("walk")}
FacadeUnits == {Omitted, Given("km"), Given("mi")}
FacadeSources == ListVal("list", <<P0>>)
FacadeTargets == ListVal("list", <<PBad, P0>>)

CanClientCall == Len(mock.calls) < MaxMockCalls

ClientCalls(op, given, calls, behaviour) ==
    /\ mock' = [calls |-> mock.calls \o calls, op |-> op, given |-> given,
                before |-> Len(mock.calls), provided |-> behaviour,
                result |-> Client_return(behaviour)]
    /\ UNCHANGED <<ncalls, nrequests, last, life, made, info>>

ClientGeocode ==
    /\ CanClientCall
    /\ \E query \in FacadeQueries, b \in MockBehaviours :
           ClientCalls("geocode", <<Given(query)>>, Client_geocode(query), b)

ClientReverseGeocode ==
    /\ CanClientCall
    /\ \E location \in {P0, PBad}, b \in MockBehaviours :
           ClientCalls("reverse_geocode", <<Given(location)>>, Client_reverse_geocode(location), b)

ClientAutocomplete ==
    /\ CanClientCall
    /\ \E query \in FacadeQueries, limit \in FacadeLimits, b \in MockBehaviours :
           ClientCalls("autocomplete", <<Given(query), limit>>,
                       Client_autocomplete(query, Arg(limit, DEFAULT_LIMIT)), b)

ClientDistanceMatrix ==
    /\ CanClientCall
    /\ \E mode \in FacadeModes, units \in FacadeUnits, b \in MockBehaviours :
           ClientCalls("distance_matrix",
                       <<Given(FacadeSources), Given(FacadeTargets), mode, units>>,
                       Client_distance_matrix(FacadeSources, FacadeTargets,
                                              Arg(mode, DRIVING), Arg(units, KILOMETERS)), b)

ClientRoute ==
    /\ CanClientCall
    /\ \E mode \in FacadeModes, b \in MockBehaviours :
           ClientCalls("route", <<Given(P0), Given(PBad), mode>>,
                       Client_route(P0, PBad, Arg(mode, DRIVING)), b)

NextClient ==
    \/ ClientGeocode
    \/ ClientReverseGeocode
    \/ ClientAutocomplete
    \/ ClientDistanceMatrix
    \/ ClientRoute

SpecClient == Init /\ [][NextClient]_vars

----------------------------------------------------------------------------
(* Construction of providers and clients.  made counts the providers, the  *)
(* clients and the requests.Session objects created, and keeps, in ev, the *)
(* last construction: its arguments, the exception it raised, the object   *)
(* it returned and the number of sessions it created.                      *)

MaxNew == 3

\* Values passed as api_key: None, an int, bytes, or a string.
QBytes(s) == [t |-> "bytes", s |-> s, n |-> 0]
ApiKeys ==
    {QNone, QInt(0), QInt(7), QBytes(<<"a">>),
     QStr(<<>>), QStr(<<" ">>), QStr(<<"a">>), QStr(<<"a", "a">>)}

\* bool(api_key)
KeyTruthy(k) == IF k.t = "bytes" THEN k.s # <<>> ELSE QueryTruthy(k)

Timeouts == {-5, -1, 0, 1, 10, 30}

\* An object: the classes isinstance() finds it an instance of, and its
\* attributes.
Object(id, classes, attrs) == [id |-> id, classes |-> classes, attrs |-> attrs]
NoObject == <<>>

isinstance(obj, cls) == cls \in obj.classes

ProviderInstance(api_key, timeout) ==
    Object("GeoapifyProvider", {"GeoapifyProvider", "BaseLocationProvider", "ABC", "object"},
           [api_key |-> <<api_key>>, timeout |-> <<timeout>>, session |-> <<"Session">>,
            provider |-> <<>>])

\* Provider__init__ without the isinstance test.
Provider__init__anyType(api_key, timeout) ==
    IF ~KeyTruthy(api_key)
    THEN [exc |-> "ValidationError", self |-> NoObject, sessions |-> 0]
    ELSE [exc |-> "none", self |-> ProviderInstance(api_key, timeout), sessions |-> 1]

\* BaseLocationProvider.__init__(api_key, timeout), which GeoapifyProvider
\* inherits: the credential is checked, then the attributes are set and the
\* session is created.  timeout is stored as given.
Provider__init__(api_key, timeout) ==
    IF ~KeyTruthy(api_key) \/ api_key.t # "str"
    THEN [exc |-> "ValidationError", self |-> NoObject, sessions |-> 0]
    ELSE [exc |-> "none", self |-> ProviderInstance(api_key, timeout), sessions |-> 1]

\* Values passed as provider: a GeoapifyProvider, the Mock(spec=
\* BaseLocationProvider) of the tests, a Mock without spec, None, a string,
\* an object of an unrelated class that has the five operations and close,
\* and the class GeoapifyProvider itself.
ProviderValues ==
    {ProviderInstance(QStr(<<"a">>), t) : t \in {0, 10}}
    \cup {Object("Mock(spec)", {"Mock", "BaseLocationProvider", "object"}, <<>>),
          Object("Mock()", {"Mock", "object"}, <<>>),
          Object("None", {"NoneType", "object"}, <<>>),
          Object("not a provider", {"str", "object"}, <<>>),
          Object("Duck", {"Duck", "object"}, <<>>),
          Object("class GeoapifyProvider", {"ABCMeta", "type", "object"}, <<>>)}

ClientInstance(provider) ==
    Object("LocationClient", {"LocationClient", "object"},
           [api_key |-> <<>>, timeout |-> <<>>, session |-> <<>>, provider |-> <<provider>>])

\* Client__init__ without the isinstance test.
Client__init__anyValue(provider) ==
    [exc |-> "none", self |-> ClientInstance(provider), sessions |-> 0]

\* LocationClient.__init__(provider)
Client__init__(provider) ==
    IF ~isinstance(provider, "BaseLocationProvider")
    THEN [exc |-> "ValidationError", self |-> NoObject, sessions |-> 0]
    ELSE [exc |-> "none", self |-> ClientInstance(provider), sessions |-> 0]

CanMake == made.providers + made.clients < MaxNew

Makes(kind, args, r) ==
    /\ made' = [providers |-> made.providers + (IF kind = "provider" THEN 1 ELSE 0),
                clients |-> made.clients + (IF kind = "client" THEN 1 ELSE 0),
                sessions |-> made.sessions + r.sessions,
                ev |-> [kind |-> kind, args |-> args, exc |-> r.exc, self |-> r.self,
                        sessions |-> r.sessions]]
    /\ UNCHANGED <<ncalls, nrequests, last, life, mock, info>>

\* GeoapifyProvider(api_key) / GeoapifyProvider(api_key, timeout=...)
ProviderNew ==
    /\ CanMake
    /\ \E api_key \in ApiKeys, timeout \in {Omitted} \cup {Given(t) : t \in Timeouts} :
          Makes("provider", <<api_key, Arg(timeout, DEFAULT_TIMEOUT)>>,
                Provider__init__(api_key, Arg(timeout, DEFAULT_TIMEOUT)))

\* LocationClient(provider)
ClientNew ==
    /\ CanMake
    /\ \E provider \in ProviderValues :
          Makes("client", <<provider>>, Client__init__(provider))

NextNew ==
    \/ ProviderNew
    \/ ClientNew

SpecNew == Init /\ [][NextNew]_vars

----------------------------------------------------------------------------
(* RouteInfo values: a construction, then a read of the two accessors *)

Metres == {0, 1, 1000, 1001, 2002, 5000}
Seconds == {0, 60, 123, 300}
Kilometres == {float(0), float(7)}
Minutes == {float(9)}

Optional(S) == {None} \cup {Some(v) : v \in S}

\* RouteInfo(...)
RouteInfoNew ==
    /\ \E distance \in Optional(Metres), duration \in Optional(Seconds),
          distance_km \in Optional(Kilometres), duration_minutes \in Optional(Minutes) :
          LET r == RouteInfo__init__(distance, duration, distance_km, duration_minutes)
          IN info' = [args |-> <<distance, duration, distance_km, duration_minutes>>,
                      exc |-> r.exc, self |-> r.self, read |-> FALSE,
                      distance |-> 0, duration |-> 0]
    /\ UNCHANGED <<ncalls, nrequests, last, life, mock, made>>

\* route.distance, route.duration on the object just constructed
RouteInfoRead ==
    /\ info.args # <<>>
    /\ info.exc = "none"
    /\ ~info.read
    /\ info' = [info EXCEPT !.read = TRUE,
                            !.distance = RouteInfo_distance(info.self),
                            !.duration = RouteInfo_duration(info.self)]
    /\ UNCHANGED <<ncalls, nrequests, last, life, mock, made>>

NextInfo ==
    \/ RouteInfoNew
    \/ RouteInfoRead

SpecInfo == Init /\ [][NextInfo]_vars

----------------------------------------------------------------------------
(* What the specification says of the inputs, stated on the values alone   *)

AdapterOps == {"geocode", "reverse_geocode", "autocomplete", "distance_matrix", "route"}

\* a non-empty, non-whitespace string
WellFormedQuery(q) == q.t = "str" /\ \E i \in 1..Len(q.s) : q.s[i] \notin Whitespace

\* a structured point, or a mapping with "latitude" and "longitude" keys
IsPoint(p) ==
    \/ p.t = "GeoPoint"
    \/ p.t = "dict" /\ "latitude" \in p.keys /\ "longitude" \in p.keys

\* -90 <= L <= 90 and -180 <= G <= 180
InRange(p) ==
    /\ p.latitude.k = "num" /\ -90 <= p.latitude.v /\ p.latitude.v <= 90
    /\ p.longitude.k = "num" /\ -180 <= p.longitude.v /\ p.longitude.v <= 180

\* latitude and longitude are floats (NaN included)
NumericPoint(p) ==
    IsPoint(p) /\ p.latitude.k \in {"num", "nan"} /\ p.longitude.k \in {"num", "nan"}

ValidPoint(p) == IsPoint(p) /\ InRange(p)

ValidList(l) ==
    /\ l.t = "list"
    /\ Len(l.elems) >= 1 /\ Len(l.elems) <= 10
    /\ \A i \in 1..Len(l.elems) : ValidPoint(l.elems[i])

FailsLocalValidation(op, args) ==
    CASE op = "geocode" -> ~WellFormedQuery(args[1])
      [] op = "autocomplete" -> ~WellFormedQuery(args[1]) \/ args[2] < 1 \/ args[2] > 50
      [] op = "reverse_geocode" -> ~ValidPoint(args[1])
      [] op = "distance_matrix" -> ~ValidList(args[1]) \/ ~ValidList(args[2])
      [] op = "route" -> ~ValidPoint(args[1]) \/ ~ValidPoint(args[2])

\* Every coordinate among the arguments is a float, as the data model types
\* latitude and longitude.
FloatCoordinates(p) == p.latitude.k \in {"num", "nan"} /\ p.longitude.k \in {"num", "nan"}
CoordinatesAreFloats(op, args) ==
    CASE op = "reverse_geocode" -> FloatCoordinates(args[1])
      [] op = "route" -> FloatCoordinates(args[1]) /\ FloatCoordinates(args[2])
      [] op = "distance_matrix" ->
            /\ \A i \in 1..Len(args[1].elems) : FloatCoordinates(args[1].elems[i])
            /\ \A i \in 1..Len(args[2].elems) : FloatCoordinates(args[2].elems[i])
      [] OTHER -> TRUE

\* The call issued a request and the transport answered with a response.
GotResponse == last.op # "idle" /\ last.out.sent # <<>> /\ last.net.kind = "response"

\* The request of the call failed: the transport raised, the status is an
\* error status, or the body of a success status does not decode.
TransportFailed ==
    /\ last.op # "idle" /\ last.out.sent # <<>>
    /\ \/ last.net.kind = "raise"
       \/ last.net.kind = "response" /\ last.net.status_code < 400
          /\ last.net.body.kind = "undecodable"
RequestFailed ==
    \/ TransportFailed
    \/ GotResponse /\ last.net.status_code >= 400

----------------------------------------------------------------------------
(* C1: for every adapter operation and every input that fails local       *)
(* validation, the operation ends with ValidationError and the call has    *)
(* issued no HTTP request (the number of requests sent is unchanged).      *)
(* Stated for the inputs whose coordinates are floats.                     *)
C1_ValidationErrorBeforeNetwork ==
    (last.op \in AdapterOps /\ CoordinatesAreFloats(last.op, last.args)
        /\ FailsLocalValidation(last.op, last.args))
        => /\ last.out.exc = "ValidationError"
           /\ last.out.sent = <<>>
           /\ nrequests = last.before

(* C2, as stated: status 401 or 403 yields AuthenticationError, 429 yields *)
(* RateLimitError, every other status >= 400 yields APIError carrying the  *)
(* status code and the body text, and a status below 400 yields none of    *)
(* the three errors.                                                       *)
C2_StatusClassification ==
    (last.op = "_make_request" /\ GotResponse) =>
        LET s == last.net.status_code
            e == last.out.exc
        IN /\ s \in {401, 403} => e = "AuthenticationError"
           /\ s = 429 => e = "RateLimitError"
           /\ (s >= 400 /\ s \notin {401, 403, 429}) =>
                 /\ e = "APIError"
                 /\ last.out.msg.status = s
                 /\ last.out.msg.text = last.net.text
           /\ s < 400 => e \notin {"AuthenticationError", "RateLimitError", "APIError"}

(* C2, amended: as above for the statuses >= 400; a status below 400       *)
(* yields neither AuthenticationError nor RateLimitError, and yields       *)
(* APIError exactly when the body cannot be decoded (otherwise the decoded *)
(* body is returned).                                                      *)
C2_StatusClassificationAmended ==
    (last.op = "_make_request" /\ GotResponse) =>
        LET s == last.net.status_code
            e == last.out.exc
        IN /\ s \in {401, 403} => e = "AuthenticationError"
           /\ s = 429 => e = "RateLimitError"
           /\ (s >= 400 /\ s \notin {401, 403, 429}) =>
                 /\ e = "APIError"
                 /\ last.out.msg.status = s
                 /\ last.out.msg.text = last.net.text
           /\ s < 400 =>
                 /\ e \in {"none", "APIError"}
                 /\ e = "APIError" <=> last.net.body.kind = "undecodable"
                 /\ e = "none" => last.out.value = last.net.body

C2_Witness ==
    /\ last.op = "_make_request" /\ GotResponse
    /\ last.net.status_code = 204
    /\ last.net.body.kind = "undecodable"
    /\ last.out.exc = "APIError"

(* C3: a request that times out, a request whose connection fails, and a   *)
(* response with status < 400 whose body cannot be decoded each surface as *)
(* APIError, never as a raw transport or parsing exception.                *)
C3_TransportFailuresAreAPIError ==
    TransportFailed => last.out.exc = "APIError"

C3_Witness ==
    /\ TransportFailed
    /\ last.op = "_make_request"
    /\ last.net.kind = "response"
    /\ last.net.body.cls = "json.JSONDecodeError"
    /\ last.out.exc = "APIError"

(* C4: there is no retry: every invocation issues at most one HTTP         *)
(* request, and a request that fails (error status, timeout, connection    *)
(* failure, unparseable body) is raised to the caller by that same         *)
(* invocation, as an error, without a second attempt.                      *)
C4_NoRetry ==
    last.op # "idle" =>
        /\ Len(last.out.sent) <= 1
        /\ nrequests = last.before + Len(last.out.sent)
        /\ RequestFailed =>
              last.out.exc \in {"AuthenticationError", "RateLimitError", "APIError"}

C4_Witness ==
    /\ last.op = "geocode"
    /\ last.before = 1
    /\ GotResponse /\ last.net.status_code = 500
    /\ Len(last.out.sent) = 1
    /\ nrequests = 2
    /\ last.out.exc = "APIError"

(* C5: leaving a with block of a LocationClient or of a provider invokes   *)
(* close exactly once, when the body completed and when it raised; in the  *)
(* raising case the exception of the body still propagates.                *)
C5_ScopeExitClosesOnce ==
    life.ev.kind \in {"provider_exit", "client_exit"} =>
        /\ life.ev.closes = 1
        /\ life.ev.propagated = life.ev.raised

C5_Witness ==
    /\ life.ev.kind = "client_exit"
    /\ life.ev.raised
    /\ life.ev.propagated
    /\ life.ev.closes = 1

(* C6, as stated: over any sequence of lifecycle actions the session of    *)
(* the provider is closed exactly once: never zero times once the scopes   *)
(* are left and never more than once.                                      *)
C6_SessionClosedExactlyOnce ==
    /\ life.session_closes <= 1
    /\ (life.ev.kind \in {"provider_exit", "client_exit"}) => life.session_closes = 1

(* C6, amended: every lifecycle action (an explicit close on the provider  *)
(* or on the client, leaving a provider scope or a client scope) closes    *)
(* the session once more, so the session has been closed as many times as  *)
(* lifecycle actions were performed: at least once when a scope has been   *)
(* left, exactly once only if exactly one action was performed.            *)
C6_SessionClosedOncePerAction ==
    /\ life.session_closes = life.explicit_closes + life.scope_exits
    /\ (life.ev.kind \in {"provider_exit", "client_exit"}) => life.session_closes >= 1

C6_Witness ==
    /\ life.pscope = "left" /\ life.cscope = "left"
    /\ life.explicit_closes = 0
    /\ life.scope_exits = 2
    /\ life.session_closes = 2

\* The provider calls made by the last facade invocation.
MadeCalls == SubSeq(mock.calls, mock.before + 1, Len(mock.calls))

\* The defaults of the facade's signatures.
FacadeDefault(op, i) ==
    CASE op = "autocomplete" /\ i = 2 -> 5
      [] op = "distance_matrix" /\ i = 3 -> "drive"
      [] op = "distance_matrix" /\ i = 4 -> "km"
      [] op = "route" /\ i = 3 -> "drive"

\* The arguments of the facade call, defaults filled in.
CallArguments ==
    [i \in 1..Len(mock.given) |->
        IF mock.given[i].given THEN mock.given[i].v[1] ELSE FacadeDefault(mock.op, i)]

(* C7: each facade operation calls the provider operation of the same name *)
(* exactly once with the same arguments, returns the very object the       *)
(* provider returned and lets the provider's error propagate unchanged; it *)
(* validates and transforms nothing.                                       *)
C7_FacadePassThrough ==
    mock.op # "none" =>
        /\ Len(MadeCalls) = 1
        /\ MadeCalls[1].name = mock.op
        /\ MadeCalls[1].args = CallArguments
        /\ mock.result = mock.provided

C7_Witness ==
    /\ mock.op = "autocomplete"
    /\ mock.given[1].v[1] = ""
    /\ ~mock.given[2].given
    /\ MadeCalls = <<ProviderCall("autocomplete", <<"", 5>>)>>
    /\ mock.provided.exc = "APIError"
    /\ mock.result.exc = "APIError"

(* C8: client.route(source, target) with no further arguments calls the    *)
(* provider's route exactly once with the four arguments (source, target,  *)
(* TravelMode.DRIVING, DistanceUnit.KILOMETERS) and returns its result.    *)
C8_RouteDefaultsFourArguments ==
    (mock.op = "route" /\ ~mock.given[3].given) =>
        /\ Len(MadeCalls) = 1
        /\ MadeCalls[1].name = "route"
        /\ MadeCalls[1].args = <<mock.given[1].v[1], mock.given[2].v[1], "drive", "km">>
        /\ mock.result = mock.provided

(* C9: for every latitude L and longitude G, point validation of (L, G)    *)
(* succeeds if and only if -90 <= L <= 90 and -180 <= G <= 180, bounds     *)
(* included, and fails with ValidationError otherwise; reverse_geocode and *)
(* route fail with ValidationError for an endpoint that fails the check.   *)
C9_PointValidationRange ==
    /\ (last.op = "_validate_location" /\ NumericPoint(last.args[1])) =>
          /\ last.out.exc = "none" <=> InRange(last.args[1])
          /\ last.out.exc \in {"none", "ValidationError"}
    /\ (last.op = "reverse_geocode" /\ NumericPoint(last.args[1])
          /\ ~InRange(last.args[1])) => last.out.exc = "ValidationError"
    /\ (last.op = "route" /\ NumericPoint(last.args[1]) /\ NumericPoint(last.args[2])
          /\ (~InRange(last.args[1]) \/ ~InRange(last.args[2])))
          => last.out.exc = "ValidationError"

C9_Witness ==
    /\ last.op = "_validate_location"
    /\ last.args[1] = GeoPoint(Num(90), Num(-180))
    /\ last.out.exc = "none"

(* C10: reverse_geocode, distance_matrix and route accept a location given *)
(* as a mapping with in-range "latitude" and "longitude" keys as they      *)
(* accept a GeoPoint: validation passes and the request is issued with     *)
(* those coordinates; a value that is neither fails with ValidationError.  *)
C10_MappingAcceptedAsLocation ==
    /\ (last.op = "reverse_geocode" /\ ValidPoint(last.args[1])) =>
          /\ Len(last.out.sent) = 1
          /\ last.out.sent[1].params.lat = last.args[1].latitude
          /\ last.out.sent[1].params.lon = last.args[1].longitude
    /\ (last.op = "route" /\ ValidPoint(last.args[1]) /\ ValidPoint(last.args[2])) =>
          Len(last.out.sent) = 1
    /\ (last.op = "distance_matrix" /\ ValidList(last.args[1]) /\ ValidList(last.args[2])) =>
          Len(last.out.sent) = 1
    /\ (last.op = "reverse_geocode" /\ ~IsPoint(last.args[1])) =>
          last.out.exc = "ValidationError"
    /\ (last.op = "route" /\ ~IsPoint(last.args[1])) => last.out.exc = "ValidationError"

----------------------------------------------------------------------------
(* The search operations and the responses they read *)

SearchOps == {"geocode", "reverse_geocode", "autocomplete"}

\* The call got a response with a success status whose body decodes.
GotDecodedBody ==
    /\ GotResponse
    /\ last.net.status_code < 400
    /\ last.net.body.kind = "object"

\* The list under "features", empty when the key is absent.
BodyFeatures == IF "features" \in last.net.body.keys THEN last.net.body.features ELSE <<>>

(* C11: geocode and autocomplete fail with ValidationError, naming the     *)
(* query, exactly when the query is missing, not a string, empty, or made   *)
(* of whitespace only; every other query passes query validation.          *)
C11_QueryValidation ==
    /\ last.op = "geocode" =>
          /\ last.out.exc = "ValidationError" <=> ~WellFormedQuery(last.args[1])
          /\ ~WellFormedQuery(last.args[1]) => last.out.sent = <<>>
    /\ last.op = "autocomplete" =>
          /\ ~WellFormedQuery(last.args[1]) =>
                /\ last.out.exc = "ValidationError"
                /\ last.out.msg.tmpl = "Query must be a non-empty string"
                /\ last.out.sent = <<>>
          /\ WellFormedQuery(last.args[1]) =>
                last.out.msg.tmpl # "Query must be a non-empty string"

C11_Witness ==
    /\ last.op = "geocode"
    /\ last.args[1] = QStr(<<" ", "\t">>)
    /\ last.out.exc = "ValidationError"
    /\ last.out.sent = <<>>

(* C12: for geocode, reverse_geocode and autocomplete, a successful        *)
(* response that contains zero features (an empty list under "features",   *)
(* or no candidate list at all) returns an empty list and raises no error. *)
C12_NoResultsIsEmptyList ==
    (last.op \in SearchOps /\ GotDecodedBody /\ "results" \notin last.net.body.keys
        /\ BodyFeatures = <<>>)
        => /\ last.out.exc = "none"
           /\ last.out.value = <<>>

C12_Witness ==
    /\ last.op = "geocode"
    /\ GotDecodedBody
    /\ last.net.body = JsonObject({"features"}, <<>>, <<>>)
    /\ last.out.exc = "none"
    /\ last.out.value = <<>>

(* C13: when the response delivers its candidates as a list under the      *)
(* "results" key, geocode, reverse_geocode and autocomplete each return    *)
(* exactly one result per entry of that list; for geocode the result has   *)
(* the entry's lat as latitude, its lon as longitude and its               *)
(* rank.confidence as confidence.                                          *)
C13_ResultsKeyMapped ==
    (last.op \in SearchOps /\ GotDecodedBody /\ "results" \in last.net.body.keys) =>
        /\ last.out.exc = "none"
        /\ Len(last.out.value) = Len(last.net.body.results)
        /\ last.op = "geocode" =>
              \A i \in 1..Len(last.net.body.results) :
                 /\ last.out.value[i].location.latitude = Num(last.net.body.results[i].lat)
                 /\ last.out.value[i].location.longitude = Num(last.net.body.results[i].lon)
                 /\ last.out.value[i].confidence
                       = Some(last.net.body.results[i].rank.confidence)

(* C14: given a valid query, autocomplete fails with ValidationError        *)
(* exactly when limit < 1 or limit > 50; the boundary values 1 and 50 are   *)
(* accepted, and an accepted limit is sent unchanged in the request.        *)
C14_LimitRange ==
    (last.op = "autocomplete" /\ WellFormedQuery(last.args[1])) =>
        LET limit == last.args[2]
        IN /\ last.out.exc = "ValidationError" <=> (limit < 1 \/ limit > 50)
           /\ (limit < 1 \/ limit > 50) => last.out.sent = <<>>
           /\ (1 <= limit /\ limit <= 50) =>
                 /\ Len(last.out.sent) = 1
                 /\ last.out.sent[1].params.limit = limit

C14_Witness ==
    /\ last.op = "autocomplete"
    /\ WellFormedQuery(last.args[1])
    /\ last.args[2] = 50
    /\ Len(last.out.sent) = 1
    /\ last.out.sent[1].params.limit = 50

\* The number of elements of a value passed as a list of locations.
Size(l) == Len(l.elems)

(* C15: distance_matrix called with more than 10 sources or more than 10   *)
(* targets fails with ValidationError before any request is sent, whatever *)
(* the individual points and the other list are; lists of exactly 10 valid *)
(* points each are accepted.                                               *)
C15_CapBeforeRequest ==
    /\ (last.op = "distance_matrix" /\ (Size(last.args[1]) > 10 \/ Size(last.args[2]) > 10)) =>
          /\ last.out.exc = "ValidationError"
          /\ last.out.sent = <<>>
    /\ (last.op = "distance_matrix" /\ Size(last.args[1]) = 10 /\ Size(last.args[2]) = 10
          /\ ValidList(last.args[1]) /\ ValidList(last.args[2])) =>
          /\ last.out.exc # "ValidationError"
          /\ Len(last.out.sent) = 1

(* C16: every DistanceMatrixResult returned by distance_matrix has         *)
(* distances and durations grids with exactly len(sources) rows and        *)
(* len(targets) columns in every row, and cell [i][j] holds the value the  *)
(* response gave for source i and target j.                                *)
C16_GridDimensions ==
    (last.op = "distance_matrix" /\ last.out.exc = "none") =>
        LET rows == Size(last.args[1])
            cols == Size(last.args[2])
            stt == last.net.body.sources_to_targets
        IN /\ Len(last.out.value.distances) = rows
           /\ Len(last.out.value.durations) = rows
           /\ \A i \in 1..rows :
                 /\ Len(last.out.value.distances[i]) = cols
                 /\ Len(last.out.value.durations[i]) = cols
                 /\ \A j \in 1..cols :
                       /\ stt[i][j].has_distance
                       /\ last.out.value.distances[i][j] = stt[i][j].distance
                       /\ stt[i][j].has_time
                       /\ last.out.value.durations[i][j] = stt[i][j].time

(* C17: route with a successful response that contains zero route features *)
(* (an empty or absent features list) fails with APIError and returns      *)
(* nothing; with at least one feature it returns a RouteInfo built from    *)
(* the first feature's distance (metres) and time (seconds).               *)
C17_RouteFirstFeatureOrAPIError ==
    (last.op = "route" /\ GotDecodedBody) =>
        IF BodyFeatures = <<>>
        THEN /\ last.out.exc = "APIError"
             /\ last.out.msg.tmpl = "No route found between the provided locations"
             /\ last.out.value = <<>>
        ELSE LET first == BodyFeatures[1]
             IN /\ last.out.exc = "none"
                /\ last.out.value.distance_km
                      = truediv(IF first.has_distance THEN first.distance ELSE 0, 1000)
                /\ last.out.value.duration_minutes
                      = truediv(IF first.has_time THEN first.time ELSE 0, 60)

C17_Witness ==
    /\ last.op = "route"
    /\ GotDecodedBody
    /\ last.net.body.features = <<FNoCoords, F1>>
    /\ last.out.exc = "none"
    /\ last.out.value.distance_km = truediv(1001, 1000)
    /\ RouteInfo_distance(last.out.value) = 1000

----------------------------------------------------------------------------
(* Construction *)

\* a non-empty string
NonEmptyString(k) == k.t = "str" /\ Len(k.s) >= 1

(* C18: constructing a provider with an empty, missing (None) or           *)
(* non-string credential fails with ValidationError, no provider is        *)
(* returned and no HTTP session is created; with a non-empty string the    *)
(* provider is returned and holds the credential and one new session.      *)
C18_CredentialChecked ==
    made.ev.kind = "provider" =>
        IF NonEmptyString(made.ev.args[1])
        THEN /\ made.ev.exc = "none"
             /\ made.ev.self.attrs.api_key = <<made.ev.args[1]>>
             /\ made.ev.sessions = 1
        ELSE /\ made.ev.exc = "ValidationError"
             /\ made.ev.self = NoObject
             /\ made.ev.sessions = 0
             /\ nrequests = 0

C18_Witness ==
    /\ made.ev.kind = "provider"
    /\ made.ev.args[1] = QInt(7)
    /\ made.ev.exc = "ValidationError"
    /\ made.sessions = 0
    /\ made.providers = 1

(* C19: constructing a provider requires a positive request-timeout        *)
(* value: a construction with a timeout that is zero or negative fails     *)
(* and returns no provider.                                                *)
C19_PositiveTimeoutRequired ==
    (made.ev.kind = "provider" /\ made.ev.args[2] <= 0) =>
        /\ made.ev.exc # "none"
        /\ made.ev.self = NoObject

\* The value is an instance of a class derived from the provider interface.
Conforms(v) == "BaseLocationProvider" \in v.classes

(* C20: constructing a LocationClient with a value that is not an instance *)
(* of the provider interface fails with ValidationError; with a provider   *)
(* instance it succeeds and the client holds exactly that provider.        *)
C20_ClientHoldsProvider ==
    made.ev.kind = "client" =>
        IF Conforms(made.ev.args[1])
        THEN /\ made.ev.exc = "none"
             /\ made.ev.self.attrs.provider = <<made.ev.args[1]>>
        ELSE /\ made.ev.exc = "ValidationError"
             /\ made.ev.self = NoObject

C20_Witness ==
    /\ made.ev.kind = "client"
    /\ made.ev.args[1].id = "Duck"
    /\ made.ev.exc = "ValidationError"
    /\ made.clients = 1

----------------------------------------------------------------------------
(* RouteInfo *)

\* The arguments of the last construction.
GivenDistance == info.args[1].some
GivenDuration == info.args[2].some
GivenDistanceKm == info.args[3].some
GivenDurationMinutes == info.args[4].some

(* C21: constructing RouteInfo with neither distance nor distance_km       *)
(* fails, and with neither duration nor duration_minutes fails; every      *)
(* RouteInfo constructed has both a distance_km and a duration_minutes.    *)
C21_RouteInfoNeedsBoth ==
    info.args # <<>> =>
        /\ (~GivenDistance /\ ~GivenDistanceKm) => (info.exc = "TypeError" /\ info.self = <<>>)
        /\ (~GivenDuration /\ ~GivenDurationMinutes) =>
              (info.exc = "TypeError" /\ info.self = <<>>)
        /\ info.exc = "none" =>
              /\ DOMAIN info.self = {"distance_km", "duration_minutes"}
              /\ GivenDistance \/ GivenDistanceKm
              /\ GivenDuration \/ GivenDurationMinutes

C21_Witness ==
    /\ info.args = <<None, Some(300), None, None>>
    /\ info.exc = "TypeError"
    /\ info.self = <<>>

(* C22: RouteInfo requires exactly one of each pair: a construction that   *)
(* supplies both distance and distance_km, or both duration and            *)
(* duration_minutes, is not accepted.                                      *)
C22_ExactlyOneOfEachPair ==
    (info.args # <<>>
        /\ ((GivenDistance /\ GivenDistanceKm) \/ (GivenDuration /\ GivenDurationMinutes)))
        => info.exc # "none"

(* C23: for every non-negative integer number of metres d and seconds s,   *)
(* RouteInfo(distance=d, duration=s) has distance_km = d/1000 and          *)
(* duration_minutes = s/60, and its accessors return exactly d and s.      *)
C23_AccessorRoundTrip ==
    (info.read /\ GivenDistance /\ GivenDuration /\ ~GivenDistanceKm
        /\ ~GivenDurationMinutes)
        => /\ info.self.distance_km = truediv(info.args[1].v[1], 1000)
           /\ info.self.duration_minutes = truediv(info.args[2].v[1], 60)
           /\ info.distance = info.args[1].v[1]
           /\ info.duration = info.args[2].v[1]

----------------------------------------------------------------------------
(* The request helper and the mapping of responses *)

(* C24: the status is classified before the body is touched: for every     *)
(* response with status >= 400 the body is never decoded, and a body is    *)
(* decoded only for a response whose status is below 400.                  *)
C24_StatusBeforeBody ==
    /\ (last.op # "idle" /\ GotResponse) =>
          (last.out.decoded <=> last.net.status_code < 400)
    /\ (last.op # "idle" /\ ~GotResponse) => ~last.out.decoded

C24_Witness ==
    /\ last.op = "reverse_geocode"
    /\ GotResponse
    /\ last.net.status_code = 404
    /\ last.net.body.kind = "object"
    /\ ~last.out.decoded
    /\ last.out.exc = "APIError"

(* C25: for every feature that geocode or autocomplete maps, the GeoPoint  *)
(* has latitude equal to the second wire coordinate and longitude equal to *)
(* the first wire coordinate of the feature geometry.                      *)
C25_CoordinatesSwapped ==
    (last.op \in {"geocode", "autocomplete"} /\ last.out.exc = "none") =>
        \A i \in 1..Len(last.out.value) :
           LET wire == last.out.value[i].raw_data.coordinates
           IN /\ last.out.value[i].location.t = "GeoPoint"
              /\ last.out.value[i].location.latitude = Num(wire[2])
              /\ last.out.value[i].location.longitude = Num(wire[1])

C25_Witness ==
    /\ last.op = "autocomplete"
    /\ last.out.exc = "none"
    /\ Len(last.out.value) = 1
    /\ last.out.value[1].raw_data.coordinates = <<13, 52>>
    /\ last.out.value[1].location.latitude = Num(52)
    /\ last.out.value[1].location.longitude = Num(13)

\* The feature carries coordinate data: at least two coordinates.
CarriesCoordinates(f) == Len(f.coordinates) >= 2

(* C26: the list returned by geocode and by autocomplete is exactly the    *)
(* subsequence of the response's features that carry at least two          *)
(* coordinates, in the response's order; the other features are skipped    *)
(* without an error.                                                       *)
C26_SubsequenceInOrder ==
    (last.op \in {"geocode", "autocomplete"} /\ GotDecodedBody) =>
        /\ last.out.exc = "none"
        /\ [i \in 1..Len(last.out.value) |-> last.out.value[i].raw_data]
              = SelectSeq(BodyFeatures, CarriesCoordinates)

C26_Witness ==
    /\ last.op = "geocode"
    /\ GotDecodedBody
    /\ BodyFeatures = <<F1, FOneCoord, F2>>
    /\ last.out.exc = "none"
    /\ Len(last.out.value) = 2
    /\ last.out.value[2].raw_data = F2

C28_OnlyTaxonomyErrors ==
    (last.op \in AdapterOps /\ last.out.exc # "none") => last.out.exc \in SDKErrors

\* An except clause for handler receives an exception of class exc.
Catches(handler, exc) == handler \in Bases(exc)

(* C29: the four error kinds are pairwise unrelated specializations of the *)
(* base error: a raised error of one kind is received by the handler of    *)
(* that kind and of no other kind, and by a handler of the base error.     *)
C29_KindsDisjoint ==
    last.out.exc \in SDKErrors =>
        /\ \A kind \in SDKErrors : Catches(kind, last.out.exc) <=> kind = last.out.exc
        /\ Catches("LocationSDKError", last.out.exc)

C29_Witness ==
    /\ last.op = "route"
    /\ last.out.exc = "AuthenticationError"
    /\ ~Catches("APIError", last.out.exc)
    /\ Catches("LocationSDKError", last.out.exc)

(* C30: distance_matrix is independent of mode and units: a call with any  *)
(* mode and units sends the same request (sources, targets and credential  *)
(* only) and, given the same response, ends as the call with the same      *)
(* sources and targets and the default mode and units does, so any two     *)
(* such calls end alike; the unit label of a result is "metric".           *)
C30_ModeAndUnitsIgnored ==
    last.op = "distance_matrix" =>
        /\ distance_matrix(last.args[1], last.args[2], DRIVING, KILOMETERS, last.net)
              = last.out
        /\ last.out.sent # <<>> =>
              DOMAIN last.out.sent[1].params = {"sources", "targets", "apiKey"}
        /\ last.out.exc = "none" => last.out.value.unit = "metric"

C30_Witness ==
    /\ last.op = "distance_matrix"
    /\ last.args[3] = "walk"
    /\ last.args[4] = "mi"
    /\ last.out.exc = "none"
    /\ Len(last.out.value.distances) = 2
    /\ last.out.value.unit = "metric"

====
